---- MODULE Spec2Model ----
(***************************************************************************)
(* Model of the FinIQ.ai agent chain: ChainManager.run driving the five    *)
(* finance agents over the shared context and execution log                *)
(* (src/backend/orchestrator/chain_manager.py, src/agents/*.py,            *)
(* src/backend/agents/investor_type_agent.py,                              *)
(* src/backend/utils/data_validation.py), the unified pipeline API         *)
(* (src/data-pipeline/pipeline_api.py, writer_agent.py, reviewer_agent.py) *)
(* the trial limiter of /api/generate (src/backend/api_server.py,          *)
(* src/api_server.py, src/backend/core/limiter_redis.py), the /enrich and  *)
(* /analyze services (src/python-retriever/main.py,                        *)
(* src/analyst-agent/main.py), and the RAG data pipeline                   *)
(* (src/data-pipeline/run_pipeline.py, chunker.py).                        *)
(***************************************************************************)
EXTENDS Integers, Sequences, FiniteSets, TLC

(***************************************************************************)
(* Bounds of the model.                                                    *)
(***************************************************************************)
\* number of run() calls made on the one ChainManager instance
MaxRuns == 2
\* number of LLM responses, over all calls, that are not the well-formed answer
MaxFaults == 1
\* number of times a call in progress is preempted by another call
MaxSwitches == 1

Runs == 1..MaxRuns

(***************************************************************************)
(* JSON / Python values.  Every scalar is a tagged record so that values   *)
(* of different Python types can sit in the same mapping.                  *)
(***************************************************************************)
Str(s) == [t |-> "str", s |-> s, n |-> 0]
Num(n) == [t |-> "num", s |-> "", n |-> n]
\* an f-string built around a computed number, e.g. f"${n}K"
Fmt(s, n) == [t |-> "str", s |-> s, n |-> n]
None == [t |-> "none", s |-> "", n |-> 0]
\* a JSON array / Python list (unhashable)
List(s) == [t |-> "list", s |-> s, n |-> 0]
\* a nested JSON object / Python dict (unhashable)
Obj(s) == [t |-> "dict", s |-> s, n |-> 0]

IsHashable(v) == v.t \in {"str", "num", "none"}

\* the empty dict {}
EmptyDict == [k \in {} |-> None]

\* dict.get(key, default)
Get(d, k, default) == IF k \in DOMAIN d THEN d[k] ELSE default

\* variant: the dict is replaced by one that holds the new entry only
Put_Clobber(d, k, v) == [x \in {k} |-> v]

\* d[k] = v on a dict
Put(d, k, v) == [x \in (DOMAIN d) \cup {k} |-> IF x = k THEN v ELSE d[x]]

(***************************************************************************)
(* Key derivation: ChainManager._get_agent_key.  Names are sequences of    *)
(* one-character strings.                                                  *)
(***************************************************************************)
LowerChars == <<"a","b","c","d","e","f","g","h","i","j","k","l","m",
                "n","o","p","q","r","s","t","u","v","w","x","y","z">>
UpperChars == <<"A","B","C","D","E","F","G","H","I","J","K","L","M",
                "N","O","P","Q","R","S","T","U","V","W","X","Y","Z">>
DigitChars == {"0","1","2","3","4","5","6","7","8","9"}

IsUpper(c) == \E i \in 1..26 : UpperChars[i] = c
IsLowerOrDigit(c) == (\E i \in 1..26 : LowerChars[i] = c) \/ c \in DigitChars

\* str.lower() on one character
LowerChar(c) ==
    IF IsUpper(c) THEN LowerChars[CHOOSE i \in 1..26 : UpperChars[i] = c] ELSE c

AgentWord == <<"A","g","e","n","t">>

StartsWithAt(s, i, w) ==
    /\ i + Len(w) - 1 <= Len(s)
    /\ \A j \in 1..Len(w) : s[i + j - 1] = w[j]

\* str.replace("Agent", ""): every non-overlapping occurrence, left to right
RECURSIVE ReplaceAgentFrom(_, _)
ReplaceAgentFrom(s, i) ==
    IF i > Len(s) THEN << >>
    ELSE IF StartsWithAt(s, i, AgentWord) THEN ReplaceAgentFrom(s, i + Len(AgentWord))
    ELSE <<s[i]>> \o ReplaceAgentFrom(s, i + 1)

\* re.sub('([a-z0-9])([A-Z])', r'\1_\2', key)
RECURSIVE SnakeFrom(_, _)
SnakeFrom(s, i) ==
    IF i > Len(s) THEN << >>
    ELSE IF i < Len(s) /\ IsLowerOrDigit(s[i]) /\ IsUpper(s[i + 1])
         THEN <<s[i], "_", s[i + 1]>> \o SnakeFrom(s, i + 2)
    ELSE <<s[i]>> \o SnakeFrom(s, i + 1)

_get_agent_key(agent_name) ==
    LET key == SnakeFrom(ReplaceAgentFrom(agent_name, 1), 1)
    IN  [i \in 1..Len(key) |-> LowerChar(key[i])]

\* agent.name of the configured agents, in configured order
\* (BaseAgent.__init__: self.name = self.__class__.__name__)
AgentNames == <<
    <<"F","u","n","d","i","n","g","S","t","a","g","e","A","g","e","n","t">>,
    <<"R","a","i","s","e","A","m","o","u","n","t","A","g","e","n","t">>,
    <<"I","n","v","e","s","t","o","r","T","y","p","e","A","g","e","n","t">>,
    <<"R","u","n","w","a","y","A","g","e","n","t">>,
    <<"F","i","n","a","n","c","i","a","l","P","r","i","o","r","i","t","y","A","g","e","n","t">> >>

NumAgents == Len(AgentNames)
Stages == 1..NumAgents

\* the literal keys the agents and _build_output use
K_input == <<"i","n","p","u","t">>
K_funding_stage == <<"f","u","n","d","i","n","g","_","s","t","a","g","e">>
K_raise_amount == <<"r","a","i","s","e","_","a","m","o","u","n","t">>
K_investor_type == <<"i","n","v","e","s","t","o","r","_","t","y","p","e">>
K_runway == <<"r","u","n","w","a","y">>
K_financial_priority ==
    <<"f","i","n","a","n","c","i","a","l","_","p","r","i","o","r","i","t","y">>

\* the context key of each configured agent: _get_agent_key(agent.name)
AgentKeys == [i \in Stages |-> _get_agent_key(AgentNames[i])]

(***************************************************************************)
(* Input validation: StartupInput, validate_startup_input, input_to_dict.  *)
(* A raw input is a mapping from field name to a raw JSON value; the five  *)
(* fields below are the ones the chain reads.  Missing marks an absent key.*)
(***************************************************************************)
Missing == [t |-> "missing", s |-> "", n |-> 0]

\* the raw strings that int()/float() accept, with their value
NumericStrings == {"5000", "-1"}
ParseNumber(s) == CASE s = "5000" -> 5000
                    [] s = "-1" -> -1

\* @validator('teamSize', pre=True) convert_to_int
convert_to_int(v) ==
    IF v.t = "none" \/ v = Str("") THEN Num(0)
    ELSE IF v.t = "num" THEN v
    ELSE IF v.t = "str" /\ v.s \in NumericStrings THEN Num(ParseNumber(v.s))
    ELSE Num(0)

\* @validator('monthlyRevenue', 'fundingGoal', pre=True) convert_to_float:
\* cls.__fields__['fundingGoal'] is a truthy field object, so both "else 0"
\* branches are dead and the result is None
convert_to_float(v) ==
    IF v.t = "none" \/ v = Str("") THEN None
    ELSE IF v.t = "num" THEN v
    ELSE IF v.t = "str" /\ v.s \in NumericStrings THEN Num(ParseNumber(v.s))
    ELSE None

TargetMarkets == {"B2B", "B2C", "B2B2C"}
ProductStages == {"Idea", "MVP", "Beta", "Revenue", "Scaling"}

\* the value of each field after its pre-validator (defaults are not validated)
Converted(raw) ==
    [startupName |-> raw.startupName,
     targetMarket |-> raw.targetMarket,
     teamSize |-> IF raw.teamSize = Missing THEN Missing
                  ELSE convert_to_int(raw.teamSize),
     productStage |-> raw.productStage,
     monthlyRevenue |-> IF raw.monthlyRevenue = Missing THEN Num(0)
                        ELSE convert_to_float(raw.monthlyRevenue)]

\* variant: validation stops at the first field that fails, in declaration
\* order, and reports that field only
Violations_FirstOnly(raw) ==
    LET c == Converted(raw) IN
    IF ~(c.startupName.t = "str" /\ c.startupName.s # "") THEN {"startupName"}
    ELSE IF ~(c.targetMarket.t = "str" /\ c.targetMarket.s \in TargetMarkets)
    THEN {"targetMarket"}
    ELSE IF ~(c.teamSize.t = "num" /\ c.teamSize.n >= 0 /\ c.teamSize.n <= 10000)
    THEN {"teamSize"}
    ELSE IF ~(c.productStage.t = "str" /\ c.productStage.s \in ProductStages)
    THEN {"productStage"}
    ELSE IF ~(c.monthlyRevenue.t = "none"
              \/ (c.monthlyRevenue.t = "num" /\ c.monthlyRevenue.n >= 0))
    THEN {"monthlyRevenue"}
    ELSE {}

\* the fields whose constraint is violated (StartupInput field declarations);
\* pydantic validates every field and reports all errors together
Violations(raw) ==
    LET c == Converted(raw) IN
    {f \in {"startupName"} : ~(c.startupName.t = "str" /\ c.startupName.s # "")}
    \cup {f \in {"targetMarket"} :
            ~(c.targetMarket.t = "str" /\ c.targetMarket.s \in TargetMarkets)}
    \cup {f \in {"teamSize"} :
            ~(c.teamSize.t = "num" /\ c.teamSize.n >= 0 /\ c.teamSize.n <= 10000)}
    \cup {f \in {"productStage"} :
            ~(c.productStage.t = "str" /\ c.productStage.s \in ProductStages)}
    \cup {f \in {"monthlyRevenue"} :
            ~(c.monthlyRevenue.t = "none"
              \/ (c.monthlyRevenue.t = "num" /\ c.monthlyRevenue.n >= 0))}

\* validate_startup_input: the validated object, or ValueError carrying the
\* pydantic message (one line per violated field)
validate_startup_input(raw) ==
    IF Violations(raw) = {}
    THEN [exc |-> "none", fields |-> {}, value |-> Converted(raw)]
    ELSE [exc |-> "ValueError", fields |-> Violations(raw), value |-> Converted(raw)]

InputFields == {"startupName", "targetMarket", "teamSize", "productStage",
                "monthlyRevenue"}

\* input_to_dict: validated_input.dict()
input_to_dict(validated) ==
    [f \in InputFields |->
        CASE f = "startupName" -> validated.startupName
          [] f = "targetMarket" -> validated.targetMarket
          [] f = "teamSize" -> validated.teamSize
          [] f = "productStage" -> validated.productStage
          [] f = "monthlyRevenue" -> validated.monthlyRevenue]

(***************************************************************************)
(* The external LLM capability.  A response is an API error (timeout,      *)
(* provider error), text that is not JSON, a JSON object or a JSON array.  *)
(***************************************************************************)
LLMError == [kind |-> "error", body |-> EmptyDict, items |-> {}]
LLMInvalid == [kind |-> "invalid", body |-> EmptyDict, items |-> {}]
LLMObject(body) == [kind |-> "object", body |-> body, items |-> {}]
LLMArray(items) == [kind |-> "array", body |-> EmptyDict, items |-> items]

\* result of a call: a returned dict, a returned non-dict, or an exception
Ok(d) == [exc |-> "none", isdict |-> TRUE, out |-> d]
OkNonDict == [exc |-> "none", isdict |-> FALSE, out |-> EmptyDict]
Raise(e) == [exc |-> e, isdict |-> FALSE, out |-> EmptyDict]

\* required_fields of each agent's _parse_response
RequiredFields(i) ==
    CASE i = 1 -> {"funding_stage", "confidence", "rationale"}
      [] i = 2 -> {"recommended_amount", "rationale"}
      [] i = 3 -> {"primary_investor_type", "rationale"}
      [] i = 4 -> {"estimated_runway_months", "monthly_burn_rate"}
      [] i = 5 -> {"priorities"}

\* model.generate_content followed by _parse_response: json.loads, then
\* "field not in parsed" for each required field (key membership on an
\* object, element membership on an array)
_parse_response(response, required) ==
    CASE response.kind = "error" -> Raise("ProviderError")
      [] response.kind = "invalid" -> Raise("ValueError")
      [] response.kind = "object" ->
            IF required \subseteq DOMAIN response.body
            THEN Ok(response.body) ELSE Raise("ValueError")
      [] response.kind = "array" ->
            IF required \subseteq response.items
            THEN OkNonDict ELSE Raise("ValueError")

(***************************************************************************)
(* FundingStageAgent                                                       *)
(***************************************************************************)
\* the if/elif chain of _get_fallback_output; comparing None with a number
\* raises TypeError
FundingStageHeuristic(ps, rev) ==
    IF ps = Str("Idea") THEN "Pre-Seed"
    ELSE IF ps = Str("MVP") /\ rev.t # "num" THEN "TypeError"
    ELSE IF ps = Str("MVP") /\ rev.n < 1000 THEN "Pre-Seed"
    ELSE IF ps = Str("Beta") THEN "Seed"
    ELSE IF ps = Str("Revenue") /\ rev.t # "num" THEN "TypeError"
    ELSE IF ps = Str("Revenue") /\ rev.n < 10000 THEN "Seed"
    ELSE IF rev.t # "num" THEN "TypeError"
    ELSE IF rev.n > 50000 THEN "Series A"
    ELSE "Seed"

FundingStageAgent_get_fallback_output(input_data) ==
    LET product_stage == Get(input_data, "productStage", Str("Idea"))
        monthly_revenue == Get(input_data, "monthlyRevenue", Num(0))
        stage == FundingStageHeuristic(product_stage, monthly_revenue)
    IN  IF stage = "TypeError" THEN Raise("TypeError")
        ELSE Ok([f \in {"funding_stage", "confidence", "rationale",
                        "stage_characteristics"} |->
                  CASE f = "funding_stage" -> Str(stage)
                    [] f = "confidence" -> Str("low")
                    [] f = "rationale" -> Str("Fallback recommendation")
                    [] f = "stage_characteristics" -> Str("Basic heuristic applied")])

FundingStageAgent_run(input_data, context, response) ==
    LET result == _parse_response(response, RequiredFields(1))
    IN  IF result.exc = "none" THEN result
        ELSE FundingStageAgent_get_fallback_output(input_data)

(***************************************************************************)
(* RaiseAmountAgent                                                        *)
(***************************************************************************)
\* context.get("funding_stage", {}).get("funding_stage", default)
ContextFundingStage(context, default) ==
    Get(Get(context, K_funding_stage, EmptyDict), "funding_stage", default)

\* stage_amounts.get(stage, "$500K-$1M")
StageAmount(stage) ==
    CASE stage = Str("Idea") -> "$50K-$150K"
      [] stage = Str("Pre-Seed") -> "$150K-$500K"
      [] stage = Str("Seed") -> "$500K-$2M"
      [] stage = Str("Series A") -> "$2M-$10M"
      [] stage = Str("Series B+") -> "$10M+"
      [] OTHER -> "$500K-$1M"

RaiseAmountAgent_get_fallback_output(input_data, context) ==
    LET stage == ContextFundingStage(context, Str("Seed"))
    IN  IF ~IsHashable(stage) THEN Raise("TypeError")
        ELSE Ok([f \in {"recommended_amount", "minimum_viable", "optimal_amount",
                        "rationale", "breakdown"} |->
                  CASE f = "recommended_amount" -> Str(StageAmount(stage))
                    [] f = "minimum_viable" -> Str("50% of recommended")
                    [] f = "optimal_amount" -> Str(StageAmount(stage))
                    [] f = "rationale" -> Str("Typical range for stage (fallback)")
                    [] f = "breakdown" -> Obj("breakdown")])

RaiseAmountAgent_run(input_data, context, response) ==
    LET result == _parse_response(response, RequiredFields(2))
    IN  IF result.exc = "none" THEN result
        ELSE RaiseAmountAgent_get_fallback_output(input_data, context)

(***************************************************************************)
(* InvestorTypeAgent                                                       *)
(***************************************************************************)
\* stage_investors.get(stage, "Seed VCs")
StageInvestors(stage) ==
    CASE stage = Str("Idea") -> "Friends & Family, Angel Investors"
      [] stage = Str("Pre-Seed") -> "Angel Investors, Pre-Seed VCs, Accelerators"
      [] stage = Str("Seed") -> "Seed VCs, Angel Networks, Micro VCs"
      [] stage = Str("Series A") -> "Institutional VCs, Growth Funds"
      [] stage = Str("Series B+") -> "Late-Stage VCs, Private Equity"
      [] OTHER -> "Seed VCs"

InvestorTypeAgent_get_fallback_output(context) ==
    LET stage == ContextFundingStage(context, Str("Seed"))
    IN  IF ~IsHashable(stage) THEN Raise("TypeError")
        ELSE Ok([f \in {"primary_investor_type", "secondary_options", "avoid",
                        "rationale", "target_profile", "approach_strategy"} |->
                  CASE f = "primary_investor_type" -> Str(StageInvestors(stage))
                    [] f = "secondary_options" -> List("secondary_options")
                    [] f = "avoid" -> List("avoid")
                    [] f = "rationale" -> Str("Typical investor profile for stage")
                    [] f = "target_profile" -> Str("Industry-focused")
                    [] f = "approach_strategy" -> Str("Warm intros")])

InvestorTypeAgent_run(input_data, context, response) ==
    LET result == _parse_response(response, RequiredFields(3))
    IN  IF result.exc = "none" THEN result
        ELSE InvestorTypeAgent_get_fallback_output(context)

(***************************************************************************)
(* RunwayAgent                                                             *)
(***************************************************************************)
\* re.findall(r'\$?([\d,]+)K', raise_str)[0] as a number, for the amount
\* strings of the model; 0 when the pattern does not match
FirstKAmount(s) ==
    CASE s = "$50K-$150K" -> 50
      [] s = "$150K-$500K" -> 150
      [] s = "$500K-$2M" -> 500
      [] s = "$500K-$1M" -> 500
      [] s = "$500K" -> 500
      [] s = "$750K" -> 750
      [] OTHER -> 0

Max(a, b) == IF a >= b THEN a ELSE b

\* variant: the fallback names the burn rate 'burn_rate'
RunwayAgent_get_fallback_output_NoBurnRate(input_data, context) ==
    LET monthly_revenue == Get(input_data, "monthlyRevenue", Num(0))
        raise_str == Get(Get(context, K_raise_amount, EmptyDict),
                         "optimal_amount", Str("$500K"))
    IN  IF monthly_revenue.t # "num" THEN Raise("TypeError")
        ELSE IF raise_str.t # "str" THEN Raise("TypeError")
        ELSE Ok([f \in {"estimated_runway_months", "burn_rate"} |-> Str("fallback")])

RunwayAgent_get_fallback_output(input_data, context) ==
    LET team_size == Get(input_data, "teamSize", Num(3))
        monthly_revenue == Get(input_data, "monthlyRevenue", Num(0))
        estimated_burn == (team_size.n * 10000) + 20000
        net_burn == Max(estimated_burn - monthly_revenue.n, 5000)
        raise_str == Get(Get(context, K_raise_amount, EmptyDict),
                         "optimal_amount", Str("$500K"))
        raise_k == IF FirstKAmount(raise_str.s) # 0
                   THEN FirstKAmount(raise_str.s) ELSE 500
        runway_months == (raise_k * 1000) \div net_burn
    IN  IF monthly_revenue.t # "num" THEN Raise("TypeError")
        ELSE IF raise_str.t # "str" THEN Raise("TypeError")
        ELSE Ok([f \in {"estimated_runway_months", "monthly_burn_rate",
                        "assumptions", "revenue_impact", "key_milestones",
                        "burn_rate_guidance"} |->
                  CASE f = "estimated_runway_months" -> Fmt("{m}-{m+3}", runway_months)
                    [] f = "monthly_burn_rate" -> Fmt("${n}K", net_burn \div 1000)
                    [] f = "assumptions" -> Obj("assumptions")
                    [] f = "revenue_impact" -> Fmt("${n} MRR offsets burn",
                                                   monthly_revenue.n)
                    [] f = "key_milestones" -> List("key_milestones")
                    [] f = "burn_rate_guidance" -> Str("Monitor closely")])

RunwayAgent_run(input_data, context, response) ==
    LET result == _parse_response(response, RequiredFields(4))
    IN  IF result.exc = "none" THEN result
        ELSE RunwayAgent_get_fallback_output(input_data, context)

(***************************************************************************)
(* FinancialPriorityAgent                                                  *)
(***************************************************************************)
FinancialPriorityAgent_get_fallback_output(input_data, context) ==
    Ok([f \in {"priorities", "quick_wins", "avoid", "success_metrics"} |->
          List(f)])

FinancialPriorityAgent_run(input_data, context, response) ==
    LET result == _parse_response(response, RequiredFields(5))
    IN  IF result.exc = "none" THEN result
        ELSE FinancialPriorityAgent_get_fallback_output(input_data, context)

\* agent.run of the i-th configured agent (self.agents[i - 1])
AgentRun(i, input_data, context, response) ==
    CASE i = 1 -> FundingStageAgent_run(input_data, context, response)
      [] i = 2 -> RaiseAmountAgent_run(input_data, context, response)
      [] i = 3 -> InvestorTypeAgent_run(input_data, context, response)
      [] i = 4 -> RunwayAgent_run(input_data, context, response)
      [] i = 5 -> FinancialPriorityAgent_run(input_data, context, response)

\* the fallback of the i-th configured agent
AgentFallback(i, input_data, context) ==
    CASE i = 1 -> FundingStageAgent_get_fallback_output(input_data)
      [] i = 2 -> RaiseAmountAgent_get_fallback_output(input_data, context)
      [] i = 3 -> InvestorTypeAgent_get_fallback_output(context)
      [] i = 4 -> RunwayAgent_get_fallback_output(input_data, context)
      [] i = 5 -> FinancialPriorityAgent_get_fallback_output(input_data, context)

(***************************************************************************)
(* What the environment supplies: raw inputs and LLM responses.            *)
(***************************************************************************)
\* a well-formed answer of the model for stage i
GoodBody(i) ==
    CASE i = 1 -> [f \in {"funding_stage", "confidence", "rationale"} |->
                    IF f = "funding_stage" THEN Str("Series A") ELSE Str("llm")]
      [] i = 2 -> [f \in {"recommended_amount", "optimal_amount", "rationale"} |->
                    IF f = "rationale" THEN Str("llm") ELSE Str("$750K")]
      [] i = 3 -> [f \in {"primary_investor_type", "rationale"} |-> Str("llm")]
      [] i = 4 -> [f \in {"estimated_runway_months", "monthly_burn_rate"} |->
                    Str("llm")]
      [] i = 5 -> [f \in {"priorities"} |-> List("llm")]

\* an answer with every required field, whose leading field holds a JSON
\* array (stage 1: funding_stage) or a number (stage 2: optimal_amount)
OddBody(i) ==
    CASE i = 1 -> [GoodBody(1) EXCEPT !["funding_stage"] = List("llm")]
      [] i = 2 -> [GoodBody(2) EXCEPT !["optimal_amount"] = Num(750000)]
      [] OTHER -> GoodBody(i)

\* an answer that lacks the required fields
IncompleteBody == [f \in {"note"} |-> Str("llm")]

LLMResponses(i) ==
    {LLMError, LLMInvalid, LLMObject(GoodBody(i)), LLMObject(OddBody(i)),
     LLMObject(IncompleteBody), LLMArray(RequiredFields(i))}

\* a raw input; the fields the chain never reads are well-formed and left out
RawInput(name, market, team, stage, revenue) ==
    [startupName |-> name, targetMarket |-> market, teamSize |-> team,
     productStage |-> stage, monthlyRevenue |-> revenue]

\* raw inputs of the r-th call (the startup name carries the call number):
\* the API server's base input, the same with the revenue field left empty,
\* and two inputs that violate one and two constraints
RawInputs(r) ==
    {RawInput(Fmt("Startup", r), Str("B2B"), Num(3), Str("MVP"), Num(0)),
     RawInput(Fmt("Startup", r), Str("B2B"), Num(3), Str("MVP"), Str("")),
     RawInput(Fmt("Startup", r), Str("B2B"), Num(3), Str("Idea"), Str("")),
     RawInput(Fmt("Startup", r), Str("Enterprise"), Num(3), Str("MVP"), Num(0)),
     RawInput(Fmt("Startup", r), Str("Enterprise"), Num(-1), Str("MVP"), Num(0))}

(***************************************************************************)
(* ChainManager: one instance, shared by every run() call.                 *)
(***************************************************************************)
VARIABLES
    context,        \* self.context
    execution_log,  \* self.execution_log
    pc,             \* per call: position in run()
    stage_i,        \* per call: the loop variable i of run()
    input_dict,     \* per call: the local input_dict
    agent_key,      \* per call: the local agent_key (unbound until assigned)
    report,         \* per call: the value returned by run()
    error,          \* per call: the exception run() raised to its caller
    log_run,        \* history: the call that appended each execution_log entry
    calls,          \* history: per call, the agent.run invocations it made
    faults,         \* history: LLM responses so far that were not well-formed
    turn,           \* history: the call that took the last step (0: none)
    switches,       \* history: preemptions of a call in progress so far
    writer          \* history: the call that wrote each key of self.context

chain_vars == <<context, execution_log, pc, stage_i, input_dict, agent_key, report,
                error, log_run, calls, faults, turn, switches, writer>>

\* a ChainManager built over an agent list, and one run of its loop
VARIABLES
    c_agents,       \* agent.name of the agents listed in __init__, in order
    c_api_key,      \* whether an API key is available to the agents
    c_pc,           \* "New", "Constructed", "CtorFailed", "Running", "Done"
    c_i,            \* the loop variable i of run()
    c_context,      \* self.context: key -> the stage whose output it holds
    c_keys          \* history: the key derived for each stage that has run

config_vars == <<c_agents, c_api_key, c_pc, c_i, c_context, c_keys>>

\* one call of validate_startup_input
VARIABLES
    v_raw,          \* the raw input
    v_result        \* the outcome of the call

validation_vars == <<v_raw, v_result>>

\* the unified pipeline API process (pipeline_api.py)
VARIABLES
    p_env_key,      \* GEMINI_API_KEY or GOOGLE_API_KEY is set
    p_agents,       \* the globals retriever_agent, writer_agent, reviewer_agent,
                    \* exporter_agent: instance number, 0 for None
    p_retriever_ok, \* the global retriever_ok
    p_created,      \* history: agent instances constructed so far
    p_requests,     \* history: /generate requests answered so far
    p_trace,        \* history: the stages the last request ran, in order
    p_response      \* the answer to the last request

pipeline_vars == <<p_env_key, p_agents, p_retriever_ok, p_created, p_requests,
                   p_trace, p_response>>

\* the trial limiter of /api/generate (api_server.py, limiter_redis.py), for
\* the requests of one user
VARIABLES
    l_use_redis,    \* the global use_redis_limiter
    l_key,          \* Redis: the hash stored at user:<user_id>
    l_user_trials,  \* the in-memory user_trials[user_id]
    l_req,          \* per request: position in generate and its locals
    l_window,       \* history: requests answered 200 in the current window
    l_expiries      \* history: expiries of the user's key so far

limiter_vars == <<l_use_redis, l_key, l_user_trials, l_req, l_window, l_expiries>>

\* the /enrich and /analyze services (src/python-retriever/main.py,
\* src/analyst-agent/main.py): which service the process under observation
\* is, the requests it has answered, its last response
VARIABLES
    e_service,
    e_requests,
    e_response

endpoint_vars == <<e_service, e_requests, e_response>>

\* RAGPipeline.run_full_pipeline (src/data-pipeline/run_pipeline.py)
VARIABLES
    g_pc,               \* position in run_full_pipeline
    g_force,            \* the force argument
    g_files,            \* which of crawled_docs_enhanced.json, chunks.json exist
    g_db,               \* documents in the vector database
    g_success,          \* the local variable success
    g_steps_completed,  \* pipeline_stats["steps_completed"]
    g_errors,           \* pipeline_stats["errors"]
    g_order,            \* the steps started, in order, with what they returned
    g_result            \* the value returned

rag_vars == <<g_pc, g_force, g_files, g_db, g_success, g_steps_completed, g_errors,
              g_order, g_result>>

\* chunk_text (src/data-pipeline/chunker.py)
VARIABLES
    k_pc,          \* position in chunk_text
    k_words,       \* the words of the text, as their lengths
    k_chunk_size,
    k_overlap,
    k_start,
    k_chunks,      \* the chunks returned, as the sets of word positions
    k_iters        \* iterations of the while loop

chunk_vars == <<k_pc, k_words, k_chunk_size, k_overlap, k_start, k_chunks, k_iters>>

aux_vars == <<endpoint_vars, rag_vars, chunk_vars>>

non_chain_vars == <<config_vars, validation_vars, pipeline_vars, limiter_vars,
                    aux_vars>>

vars == <<chain_vars, config_vars, validation_vars, pipeline_vars, limiter_vars,
          aux_vars>>

EndpointIdle ==
    /\ e_service = "none"
    /\ e_requests = 0
    /\ e_response = << >>

RagIdle ==
    /\ g_pc = "Idle"
    /\ g_force = FALSE
    /\ g_files = {}
    /\ g_db = 0
    /\ g_success = FALSE
    /\ g_steps_completed = << >>
    /\ g_errors = << >>
    /\ g_order = << >>
    /\ g_result = "none"

ChunkIdle ==
    /\ k_pc = "Idle"
    /\ k_words = << >>
    /\ k_chunk_size = 0
    /\ k_overlap = 0
    /\ k_start = 0
    /\ k_chunks = << >>
    /\ k_iters = 0

AuxIdle == EndpointIdle /\ RagIdle /\ ChunkIdle

LimiterIdle ==
    /\ l_use_redis = FALSE
    /\ l_key = << >>
    /\ l_user_trials = 0
    /\ l_req = << >>
    /\ l_window = 0
    /\ l_expiries = 0

PipelineIdle ==
    /\ p_env_key = FALSE
    /\ p_agents = << >>
    /\ p_retriever_ok = FALSE
    /\ p_created = 0
    /\ p_requests = 0
    /\ p_trace = << >>
    /\ p_response = << >>

\* the variables of a part of the program that is not running
ConfigIdle ==
    /\ c_agents = << >>
    /\ c_api_key = FALSE
    /\ c_pc = "Idle"
    /\ c_i = 0
    /\ c_context = << >>
    /\ c_keys = << >>

ValidationIdle ==
    /\ v_raw = << >>
    /\ v_result = << >>

ChainIdle ==
    /\ context = << >>
    /\ execution_log = << >>
    /\ pc = << >>
    /\ stage_i = << >>
    /\ input_dict = << >>
    /\ agent_key = << >>
    /\ report = << >>
    /\ error = << >>
    /\ log_run = << >>
    /\ calls = << >>
    /\ faults = 0
    /\ turn = 0
    /\ switches = 0
    /\ writer = << >>

Unbound == [bound |-> FALSE, key |-> << >>]
Bound(k) == [bound |-> TRUE, key |-> k]

\* {"error": str(e)}
ErrorMarker(e) == [f \in {"error"} |-> Str(e)]

\* the entries appended at lines 105-110 and 118-123 (timestamps left out)
SuccessEntry(name, out) ==
    [agent |-> name, status |-> "success", output_keys |-> DOMAIN out]
\* variant: the failure branch records the stage as a success
FailedEntry_AsSuccess(name, e) ==
    [agent |-> name, status |-> "success", error |-> e]

FailedEntry(name, e) ==
    [agent |-> name, status |-> "failed", error |-> e]

\* variant: an entry without the field is templated by its error text
_generate_summary_ErrorText(ctx) ==
    LET field(key, name) ==
            LET entry == Get(ctx, key, EmptyDict) IN
            Get(entry, name, Get(entry, "error", Str("N/A")))
    IN
    [startup |-> ctx[K_input]["startupName"],
     stage |-> field(K_funding_stage, "funding_stage"),
     amount |-> field(K_raise_amount, "recommended_amount"),
     investor |-> field(K_investor_type, "primary_investor_type"),
     runway |-> field(K_runway, "estimated_runway_months")]

\* _generate_summary: the values templated into the sentence
_generate_summary(ctx) ==
    [startup |-> ctx[K_input]["startupName"],
     stage |-> Get(Get(ctx, K_funding_stage, EmptyDict), "funding_stage", Str("N/A")),
     amount |-> Get(Get(ctx, K_raise_amount, EmptyDict), "recommended_amount",
                    Str("N/A")),
     investor |-> Get(Get(ctx, K_investor_type, EmptyDict), "primary_investor_type",
                      Str("N/A")),
     runway |-> Get(Get(ctx, K_runway, EmptyDict), "estimated_runway_months",
                    Str("N/A"))]

\* _build_output, with the metadata run() attaches; metadata.execution_log is
\* the list object self.execution_log itself, not a copy
_build_output(ctx) ==
    [startup_name |-> ctx[K_input]["startupName"],
     funding_stage |-> Get(ctx, K_funding_stage, EmptyDict),
     raise_amount |-> Get(ctx, K_raise_amount, EmptyDict),
     investor_type |-> Get(ctx, K_investor_type, EmptyDict),
     runway |-> Get(ctx, K_runway, EmptyDict),
     financial_priority |-> Get(ctx, K_financial_priority, EmptyDict),
     summary |-> _generate_summary(ctx),
     metadata |-> [agents_executed |-> NumAgents,
                   execution_log |-> "self.execution_log"]]

NoReport ==
    [startup_name |-> None, funding_stage |-> EmptyDict, raise_amount |-> EmptyDict,
     investor_type |-> EmptyDict, runway |-> EmptyDict,
     financial_priority |-> EmptyDict,
     summary |-> [startup |-> None, stage |-> None, amount |-> None,
                  investor |-> None, runway |-> None],
     metadata |-> [agents_executed |-> 0, execution_log |-> "none"]]

\* ChainManager.__init__
Init ==
    /\ context = EmptyDict
    /\ execution_log = << >>
    /\ pc = [r \in Runs |-> "NotStarted"]
    /\ stage_i = [r \in Runs |-> 0]
    /\ input_dict = [r \in Runs |-> EmptyDict]
    /\ agent_key = [r \in Runs |-> Unbound]
    /\ report = [r \in Runs |-> NoReport]
    /\ error = [r \in Runs |-> "none"]
    /\ log_run = << >>
    /\ calls = [r \in Runs |-> << >>]
    /\ faults = 0
    /\ turn = 0
    /\ switches = 0
    /\ writer = EmptyDict
    /\ ConfigIdle
    /\ ValidationIdle
    /\ PipelineIdle
    /\ LimiterIdle
    /\ AuxIdle

\* calls are numbered in the order they are made
IsNextCall(r) ==
    /\ pc[r] = "NotStarted"
    /\ \A q \in Runs : q < r => pc[q] # "NotStarted"

\* no other call is inside run()
OthersIdle(r) ==
    \A q \in Runs \ {r} : pc[q] \in {"NotStarted", "Done", "Failed"}

InProgress(q) == q \in Runs /\ pc[q] \in {"Executing", "Assembling"}

\* call r takes the next step; it preempts the call that took the last one
\* when that call is still inside run()
Schedule(r) ==
    LET preempt == IF turn # r /\ InProgress(turn) THEN 1 ELSE 0 IN
    /\ switches + preempt <= MaxSwitches
    /\ switches' = switches + preempt
    /\ turn' = r

\* variant: the seed is stored into the existing self.context instead of
\* replacing it
ValidateOk_KeepsContext(r) ==
    /\ IsNextCall(r)
    /\ Schedule(r)
    /\ \E raw \in RawInputs(r) :
         LET validated == validate_startup_input(raw) IN
         /\ validated.exc = "none"
         /\ input_dict' = [input_dict EXCEPT ![r] = input_to_dict(validated.value)]
         /\ context' = Put(context, K_input, input_to_dict(validated.value))
    /\ writer' = Put(writer, K_input, r)
    /\ pc' = [pc EXCEPT ![r] = "Executing"]
    /\ stage_i' = [stage_i EXCEPT ![r] = 1]
    /\ UNCHANGED <<execution_log, agent_key, report, error, log_run, calls, faults>>
    /\ UNCHANGED non_chain_vars

\* run(), lines 82-91, validation passes: seed the context
ValidateOk(r) ==
    /\ IsNextCall(r)
    /\ Schedule(r)
    /\ \E raw \in RawInputs(r) :
         LET validated == validate_startup_input(raw) IN
         /\ validated.exc = "none"
         /\ input_dict' = [input_dict EXCEPT ![r] = input_to_dict(validated.value)]
         /\ context' = [k \in {K_input} |-> input_to_dict(validated.value)]
    /\ writer' = [k \in {K_input} |-> r]
    /\ pc' = [pc EXCEPT ![r] = "Executing"]
    /\ stage_i' = [stage_i EXCEPT ![r] = 1]
    /\ UNCHANGED <<execution_log, agent_key, report, error, log_run, calls, faults>>
    /\ UNCHANGED non_chain_vars

\* variant: the context is seeded before the input has been validated
ValidateFail_SeedsFirst(r) ==
    /\ IsNextCall(r)
    /\ Schedule(r)
    /\ \E raw \in RawInputs(r) : validate_startup_input(raw).exc # "none"
    /\ context' = [k \in {K_input} |-> EmptyDict]
    /\ writer' = [k \in {K_input} |-> r]
    /\ pc' = [pc EXCEPT ![r] = "Failed"]
    /\ error' = [error EXCEPT ![r] = "ValueError"]
    /\ UNCHANGED <<execution_log, stage_i, input_dict, agent_key, report,
                   log_run, calls, faults>>
    /\ UNCHANGED non_chain_vars

\* run(), lines 82-85 and 146-148, validation fails: ValueError to the caller
ValidateFail(r) ==
    /\ IsNextCall(r)
    /\ Schedule(r)
    /\ \E raw \in RawInputs(r) : validate_startup_input(raw).exc # "none"
    /\ pc' = [pc EXCEPT ![r] = "Failed"]
    /\ error' = [error EXCEPT ![r] = "ValueError"]
    /\ UNCHANGED <<context, execution_log, stage_i, input_dict, agent_key, report,
                   log_run, calls, faults, writer>>
    /\ UNCHANGED non_chain_vars

\* after the loop body of stage i: the next stage, or assembly
Advance(r, i) ==
    /\ stage_i' = [stage_i EXCEPT ![r] = i + 1]
    /\ pc' = [pc EXCEPT ![r] = IF i = NumAgents THEN "Assembling" ELSE "Executing"]

\* run(), lines 93-126: one iteration of the loop
RunStage(r) ==
    /\ pc[r] = "Executing"
    /\ Schedule(r)
    /\ \E response \in LLMResponses(stage_i[r]) :
         LET i == stage_i[r]
             name == AgentNames[i]
             res == AgentRun(i, input_dict[r], context, response)
             key == AgentKeys[i]
             fault == IF response = LLMObject(GoodBody(i)) THEN 0 ELSE 1
         IN
         /\ faults + fault <= MaxFaults
         /\ faults' = faults + fault
         /\ calls' = [calls EXCEPT ![r] = Append(@,
                         [stage |-> i, seen |-> DOMAIN context,
                          seen_writers |-> {writer[k] : k \in DOMAIN writer},
                          seen_input |-> context[K_input],
                          raised |-> res.exc # "none",
                          returned_dict |-> res.exc = "none" /\ res.isdict,
                          primary_failed |->
                              _parse_response(response, RequiredFields(i)).exc # "none",
                          fallback |-> AgentFallback(i, input_dict[r], context)])]
         /\ log_run' = Append(log_run, r)
         /\ IF res.exc = "none" /\ res.isdict
            THEN \* lines 98-112
                 /\ agent_key' = [agent_key EXCEPT ![r] = Bound(key)]
                 /\ context' = Put(context, key, res.out)
                 /\ writer' = Put(writer, key, r)
                 /\ execution_log' = Append(execution_log, SuccessEntry(name, res.out))
                 /\ Advance(r, i)
                 /\ UNCHANGED error
            ELSE IF res.exc = "none"
            THEN \* lines 98-102: a non-dict is stored; line 109: .keys() raises;
                 \* lines 114-126: the entry is replaced by the error marker
                 /\ agent_key' = [agent_key EXCEPT ![r] = Bound(key)]
                 /\ execution_log' =
                       Append(execution_log, FailedEntry(name, "AttributeError"))
                 /\ context' = Put(context, key, ErrorMarker("AttributeError"))
                 /\ writer' = Put(writer, key, r)
                 /\ Advance(r, i)
                 /\ UNCHANGED error
            ELSE IF agent_key[r].bound
            THEN \* line 98 raises; lines 114-126 with agent_key of an earlier stage
                 /\ execution_log' = Append(execution_log, FailedEntry(name, res.exc))
                 /\ context' = Put(context, agent_key[r].key, ErrorMarker(res.exc))
                 /\ writer' = Put(writer, agent_key[r].key, r)
                 /\ Advance(r, i)
                 /\ UNCHANGED <<agent_key, error>>
            ELSE \* line 98 raises; line 126 reads the unbound agent_key;
                 \* lines 146-148 re-raise
                 /\ execution_log' = Append(execution_log, FailedEntry(name, res.exc))
                 /\ pc' = [pc EXCEPT ![r] = "Failed"]
                 /\ error' = [error EXCEPT ![r] = "UnboundLocalError"]
                 /\ UNCHANGED <<context, agent_key, stage_i, writer>>
    /\ UNCHANGED <<input_dict, report>>
    /\ UNCHANGED non_chain_vars

\* run(), lines 128-144: build the report and return it
Assemble(r) ==
    /\ pc[r] = "Assembling"
    /\ Schedule(r)
    /\ report' = [report EXCEPT ![r] = _build_output(context)]
    /\ pc' = [pc EXCEPT ![r] = "Done"]
    /\ UNCHANGED <<context, execution_log, stage_i, input_dict, agent_key, error,
                   log_run, calls, faults, writer>>
    /\ UNCHANGED non_chain_vars

\* calls made one after the other on the instance
Next ==
    \E r \in Runs :
        \/ OthersIdle(r) /\ ValidateOk(r)
        \/ OthersIdle(r) /\ ValidateFail(r)
        \/ RunStage(r)
        \/ Assemble(r)

Spec == Init /\ [][Next]_vars

\* calls made from concurrent requests on the shared instance
NextConc ==
    \E r \in Runs :
        \/ ValidateOk(r)
        \/ ValidateFail(r)
        \/ RunStage(r)
        \/ Assemble(r)

SpecConc == Init /\ [][NextConc]_vars

(***************************************************************************)
(* Properties of ChainManager.run.                                         *)
(***************************************************************************)
\* the stages whose agent.run call r has invoked, in order of invocation
InvokedStages(r) == [n \in DOMAIN calls[r] |-> calls[r][n].stage]

\* the positions of execution_log that call r appended, in order
RECURSIVE EntriesOfFrom(_, _)
EntriesOfFrom(r, n) ==
    IF n > Len(log_run) THEN << >>
    ELSE IF log_run[n] = r THEN <<n>> \o EntriesOfFrom(r, n + 1)
    ELSE EntriesOfFrom(r, n + 1)
EntriesOf(r) == EntriesOfFrom(r, 1)

\* the report section of the i-th configured stage
ReportSection(rep, i) ==
    CASE i = 1 -> rep.funding_stage
      [] i = 2 -> rep.raise_amount
      [] i = 3 -> rep.investor_type
      [] i = 4 -> rep.runway
      [] i = 5 -> rep.financial_priority

\* call r has just returned its report: nothing has run since
JustReturned(r) == pc[r] = "Done" /\ turn = r

\* C1: run() fails only by a validation failure; once stage execution has
\* begun no failure state is reachable, whichever stages raise.
C1_OnlyValidationFails ==
    \A r \in Runs :
        pc[r] = "Failed" => (error[r] = "ValueError" /\ calls[r] = << >>)

\* C2: if stage k's agent.run raised, then at the end of the loop the context
\* entry under stage k's own key is that stage's fallback output for the input
\* and the context the stage was given.
C2_RaisedStageHoldsFallback ==
    \A r \in Runs :
        pc[r] = "Assembling" =>
            \A n \in DOMAIN calls[r] :
                calls[r][n].raised =>
                    /\ AgentKeys[calls[r][n].stage] \in DOMAIN context
                    /\ Ok(context[AgentKeys[calls[r][n].stage]]) = calls[r][n].fallback

\* C3: a validated run invokes every configured agent exactly once, in the
\* configured order; a raising stage does not keep the later ones from running.
C3_EveryAgentInvokedOnce ==
    \A r \in Runs :
        (pc[r] \in {"Done", "Failed"} /\ error[r] # "ValueError") =>
            InvokedStages(r) = [n \in Stages |-> n]

\* C4: the execution log of a returned report has exactly one entry per
\* configured stage, in configured order, on the first and on every later run.
C4_LogOneEntryPerStage ==
    \A r \in Runs :
        JustReturned(r) =>
            /\ Len(execution_log) = NumAgents
            /\ \A n \in 1..Len(execution_log) :
                   n <= NumAgents /\ execution_log[n].agent = AgentNames[n]

\* the execution_log entry that belongs to the m-th agent.run of call r
EntryOfCall(r, m) == execution_log[EntriesOf(r)[m]]

C6_NoKeyOverwritten ==
    [][(\E r \in Runs : InProgress(r)) =>
          \A k \in DOMAIN context :
              k \in DOMAIN context' /\ context'[k] = context[k]]_vars

\* C7: at report assembly the context keys are exactly 'input' plus the
\* derived key of every configured agent.
C7_AllKeysAtAssembly ==
    \A r \in Runs :
        pc[r] = "Assembling" =>
            DOMAIN context = {K_input} \cup {AgentKeys[i] : i \in Stages}

\* C8: every returned report has, for every configured stage, a section that
\* carries the stage's required top-level fields.
C8_ReportSectionsComplete ==
    \A r \in Runs :
        pc[r] = "Done" =>
            \A i \in Stages : RequiredFields(i) \subseteq DOMAIN ReportSection(report[r], i)

\* C9: a call whose validation fails raises without invoking an agent,
\* without appending a log entry and without changing the stored context;
\* no agent is invoked for a call before its validation has succeeded.
C9_ValidationFailureIsInert ==
    [][\A r \in Runs :
          /\ (pc[r] = "NotStarted" /\ pc'[r] = "Failed") =>
                 /\ error'[r] = "ValueError"
                 /\ context' = context
                 /\ execution_log' = execution_log
          /\ error'[r] = "ValueError" =>
                 (calls'[r] = << >> /\ (EntriesOf(r))' = << >>)
          /\ calls'[r] # << >> =>
                 (pc'[r] # "NotStarted" /\ DOMAIN input_dict'[r] = InputFields)]_vars

\* a call failed validation on an instance that holds the context and the
\* log of an earlier call
C9_Witness ==
    \E r \in Runs :
        /\ error[r] = "ValueError"
        /\ execution_log # << >>
        /\ K_input \in DOMAIN context

\* C10: the report and the log a call returns hold only what that call
\* produced: every log entry was appended by it and the report is built from
\* its own input, for any interleaving with other calls.
C10_RunsAreIsolated ==
    \A r \in Runs :
        JustReturned(r) =>
            /\ \A n \in 1..Len(log_run) : log_run[n] = r
            /\ report[r].startup_name = input_dict[r]["startupName"]

(***************************************************************************)
(* ChainManager built over an agent list.  __init__ lists the agent        *)
(* classes at lines 55-61; the list is the configuration of the chain, and *)
(* the loop of run() stores each output under the key derived from the     *)
(* agent's name.                                                           *)
(***************************************************************************)
\* longest agent list drawn besides the shipped one
MaxAgents == 3

N_MultiAgentPlannerAgent ==
    <<"M","u","l","t","i","A","g","e","n","t","P","l","a","n","n","e","r","A","g","e","n","t">>
N_MultiPlannerAgent ==
    <<"M","u","l","t","i","P","l","a","n","n","e","r","A","g","e","n","t">>

\* agent class names a chain can be configured with
ConfigNames ==
    {AgentNames[1], AgentNames[2], AgentNames[4],
     N_MultiAgentPlannerAgent, N_MultiPlannerAgent}

\* the shipped list, and every list of at most MaxAgents of the names
Configs ==
    {AgentNames} \cup UNION {[1..n -> ConfigNames] : n \in 1..MaxAgents}

ConfigInit ==
    /\ c_agents \in Configs
    /\ c_api_key \in BOOLEAN
    /\ c_pc = "New"
    /\ c_i = 0
    /\ c_context = EmptyDict
    /\ c_keys = << >>
    /\ ChainIdle
    /\ ValidationIdle
    /\ PipelineIdle
    /\ LimiterIdle
    /\ AuxIdle

\* ChainManager.__init__: each agent's constructor raises ValueError when no
\* API key is found; nothing else is checked
Construct ==
    /\ c_pc = "New"
    /\ c_pc' = IF c_api_key THEN "Constructed" ELSE "CtorFailed"
    /\ UNCHANGED <<c_agents, c_api_key, c_i, c_context, c_keys>>
    /\ UNCHANGED <<chain_vars, validation_vars, pipeline_vars, limiter_vars, aux_vars>>

\* run(), lines 82-91, on a constructed manager with a valid input
ConfigRunStart ==
    /\ c_pc = "Constructed"
    /\ c_pc' = "Running"
    /\ c_i' = 1
    /\ c_context' = [k \in {K_input} |-> [stage |-> 0, error |-> FALSE]]
    /\ UNCHANGED <<c_agents, c_api_key, c_keys>>
    /\ UNCHANGED <<chain_vars, validation_vars, pipeline_vars, limiter_vars, aux_vars>>

\* run(), lines 93-126: one iteration of the loop; agent.run returns a
\* mapping or raises
ConfigRunStage ==
    /\ c_pc = "Running"
    /\ c_i <= Len(c_agents)
    /\ \E returned \in BOOLEAN :
         LET key == _get_agent_key(c_agents[c_i]) IN
         IF returned
         THEN /\ c_context' = Put(c_context, key, [stage |-> c_i, error |-> FALSE])
              /\ c_keys' = Append(c_keys, [stage |-> c_i, key |-> key])
              /\ c_i' = c_i + 1
              /\ UNCHANGED c_pc
         ELSE IF c_keys # << >>
         THEN \* line 126 with agent_key of the last stage that returned
              /\ c_context' = Put(c_context, c_keys[Len(c_keys)].key,
                                  [stage |-> c_i, error |-> TRUE])
              /\ c_i' = c_i + 1
              /\ UNCHANGED <<c_pc, c_keys>>
         ELSE \* line 126 reads the unbound agent_key
              /\ c_pc' = "Failed"
              /\ UNCHANGED <<c_i, c_context, c_keys>>
    /\ UNCHANGED <<c_agents, c_api_key>>
    /\ UNCHANGED <<chain_vars, validation_vars, pipeline_vars, limiter_vars, aux_vars>>

\* run(), lines 128-144
ConfigAssemble ==
    /\ c_pc = "Running"
    /\ c_i > Len(c_agents)
    /\ c_pc' = "Done"
    /\ UNCHANGED <<c_agents, c_api_key, c_i, c_context, c_keys>>
    /\ UNCHANGED <<chain_vars, validation_vars, pipeline_vars, limiter_vars, aux_vars>>

ConfigNext ==
    \/ Construct
    \/ ConfigRunStart
    \/ ConfigRunStage
    \/ ConfigAssemble

SpecConfig == ConfigInit /\ [][ConfigNext]_vars

\* two agents of the list derive the same context key
KeysCollide(agents) ==
    \E i, j \in DOMAIN agents :
        i # j /\ _get_agent_key(agents[i]) = _get_agent_key(agents[j])

IsLower(c) == \E i \in 1..26 : LowerChars[i] = c

StripAgentSuffix(s) ==
    IF Len(s) >= Len(AgentWord) /\ StartsWithAt(s, Len(s) - Len(AgentWord) + 1, AgentWord)
    THEN SubSeq(s, 1, Len(s) - Len(AgentWord))
    ELSE s

RECURSIVE UnderscoreFrom(_, _)
UnderscoreFrom(s, i) ==
    IF i > Len(s) THEN << >>
    ELSE IF i < Len(s) /\ IsLower(s[i]) /\ IsUpper(s[i + 1])
         THEN <<s[i], "_">> \o UnderscoreFrom(s, i + 1)
    ELSE <<s[i]>> \o UnderscoreFrom(s, i + 1)

ReferenceKey(name) ==
    LET key == UnderscoreFrom(StripAgentSuffix(name), 1)
    IN  [i \in 1..Len(key) |-> LowerChar(key[i])]

\* C13: the key under which a stage's output is stored is the reference
\* derivation of the agent's name: the trailing 'Agent' removed and nothing
\* else, '_' at each lowercase-to-uppercase transition, lowercased.
C13_KeyIsReferenceDerivation ==
    \A n \in DOMAIN c_keys :
        c_keys[n].key = ReferenceKey(c_agents[c_keys[n].stage])

(***************************************************************************)
(* validate_startup_input on its own: one call on a raw input.             *)
(***************************************************************************)
\* raw inputs of the call: present, absent, out-of-range, out-of-enumeration
\* and non-numeric values of the five fields
ValidationInputs ==
    {RawInput(name, market, team, stage, revenue) :
        name \in {Str("Acme"), Str(""), Missing},
        market \in {Str("B2B"), Str("Enterprise")},
        team \in {Num(3), Num(-1), Num(20000), Str("5000"), Str("-1"), Str("abc"),
                  Missing},
        stage \in {Str("MVP"), Str("Launch")},
        revenue \in {Num(0), Num(-5), Str(""), Str("abc"), None}}

NotValidated == [done |-> FALSE, exc |-> "none", fields |-> {}]

ValidationInit ==
    /\ v_raw \in ValidationInputs
    /\ v_result = NotValidated
    /\ ChainIdle
    /\ ConfigIdle
    /\ PipelineIdle
    /\ LimiterIdle
    /\ AuxIdle

\* validate_startup_input(data): returns, or raises ValueError whose message
\* is pydantic's error list
ValidateCall ==
    /\ ~v_result.done
    /\ v_result' = [done |-> TRUE,
                    exc |-> validate_startup_input(v_raw).exc,
                    fields |-> validate_startup_input(v_raw).fields]
    /\ UNCHANGED v_raw
    /\ UNCHANGED <<chain_vars, config_vars, pipeline_vars, limiter_vars, aux_vars>>

ValidationNext == ValidateCall

SpecValidation == ValidationInit /\ [][ValidationNext]_vars

\* what a raw value is, read against the declared constraints of its field
IsNumeric(v) == v.t = "num" \/ (v.t = "str" /\ v.s \in NumericStrings)
NumOf(v) == IF v.t = "num" THEN v.n ELSE ParseNumber(v.s)

\* a raw value that is absent though required, out of range or out of the
\* enumeration
RangeViolations(raw) ==
    {f \in InputFields :
        CASE f = "startupName" -> raw.startupName \in {Missing, Str("")}
          [] f = "targetMarket" ->
                raw.targetMarket = Missing \/ raw.targetMarket.s \notin TargetMarkets
          [] f = "teamSize" ->
                \/ raw.teamSize = Missing
                \/ IsNumeric(raw.teamSize)
                   /\ (NumOf(raw.teamSize) < 0 \/ NumOf(raw.teamSize) > 10000)
          [] f = "productStage" ->
                raw.productStage = Missing \/ raw.productStage.s \notin ProductStages
          [] f = "monthlyRevenue" ->
                IsNumeric(raw.monthlyRevenue) /\ NumOf(raw.monthlyRevenue) < 0}

\* a numeric field holding text that is not a number
TypeViolations(raw) ==
    {f \in {"teamSize", "monthlyRevenue"} :
        raw[f].t = "str" /\ raw[f].s # "" /\ ~IsNumeric(raw[f])}

C14_StageSeesOnlyEarlierStages ==
    \A r \in Runs :
        \A m \in DOMAIN calls[r] :
            /\ K_input \in calls[r][m].seen
            /\ calls[r][m].seen \subseteq
                   {K_input} \cup {AgentKeys[j] : j \in 1..(calls[r][m].stage - 1)}
            /\ calls[r][m].seen_writers = {r}
            /\ calls[r][m].seen_input = input_dict[r]

\* on an instance that holds the full context of an earlier run, the third
\* stage of a later run is given the seed and the keys of stages 1 and 2
C14_Witness ==
    \E r \in Runs :
        /\ r > 1 /\ pc[1] = "Done"
        /\ Len(calls[r]) >= 3
        /\ calls[r][3].stage = 3
        /\ calls[r][3].seen = {K_input, AgentKeys[1], AgentKeys[2]}

\* C15: whenever an agent's fallback returns, its output is a mapping that
\* holds every field the agent's _parse_response requires of a primary
\* answer.
C15_FallbackHasRequiredFields ==
    \A r \in Runs :
        \A m \in DOMAIN calls[r] :
            calls[r][m].fallback.exc = "none" =>
                /\ calls[r][m].fallback.isdict
                /\ RequiredFields(calls[r][m].stage)
                       \subseteq DOMAIN calls[r][m].fallback.out

\* the RunwayAgent's LLM answer was unusable and its fallback output, with
\* both required fields, is what the context holds under 'runway'
C15_Witness ==
    \E r \in Runs :
        \E m \in DOMAIN calls[r] :
            /\ calls[r][m].stage = 4
            /\ calls[r][m].primary_failed /\ calls[r][m].returned_dict
            /\ K_runway \in DOMAIN context
            /\ Ok(context[K_runway]) = calls[r][m].fallback
            /\ {"estimated_runway_months", "monthly_burn_rate"}
                   \subseteq DOMAIN context[K_runway]

\* C16: when an agent's LLM call fails or its answer is malformed or
\* incomplete, agent.run returns a mapping (the fallback never raises), for
\* every validated input and every context earlier stages produced.
C16_FallbackNeverRaises ==
    \A r \in Runs :
        \A m \in DOMAIN calls[r] :
            calls[r][m].primary_failed =>
                (~calls[r][m].raised /\ calls[r][m].returned_dict)

\* the execution log a caller reads through the report of call r:
\* metadata.execution_log is the list object self.execution_log
ReportLog(r) ==
    IF report[r].metadata.execution_log = "self.execution_log"
    THEN execution_log ELSE << >>

\* C18: a report that run() has returned, its metadata.execution_log
\* included, is never changed by anything that happens later on the instance.
C18_ReturnedReportNeverChanges ==
    [][\A r \in Runs :
          pc[r] = "Done" =>
              /\ report'[r] = report[r]
              /\ ReportLog(r)' = ReportLog(r)]_vars

\* C19: the validated input is stored under 'input' when the call passes
\* validation, before any agent is invoked, and from then on no step of the
\* run changes or removes the value under 'input'.
C19_InputStoredOnceAndKept ==
    [][\A r \in Runs :
          /\ (pc[r] = "NotStarted" /\ pc'[r] = "Executing") =>
                 /\ calls'[r] = << >>
                 /\ K_input \in DOMAIN context'
                 /\ context'[K_input] = input_dict'[r]
          /\ InProgress(r) =>
                 /\ context[K_input] = input_dict[r]
                 /\ input_dict'[r] = input_dict[r]
                 /\ K_input \in DOMAIN context'
                 /\ context'[K_input] = context[K_input]
          /\ calls'[r] # calls[r] => context[K_input] = input_dict[r]]_vars

\* a run reached assembly with every stage run, one of them having raised,
\* and the context still holds the run's validated input under 'input'
C19_Witness ==
    \E r \in Runs :
        /\ pc[r] = "Assembling"
        /\ Len(calls[r]) = NumAgents
        /\ \E m \in DOMAIN calls[r] : calls[r][m].raised
        /\ context[K_input] = input_dict[r]
        /\ DOMAIN input_dict[r] = InputFields

(***************************************************************************)
(* The unified pipeline API (src/data-pipeline/pipeline_api.py):           *)
(* Retriever -> Writer -> Reviewer -> Exporter inside one /generate.       *)
(***************************************************************************)
\* /generate requests made to the process
MaxRequests == 2
\* documents a retrieval returns at most
MaxDocs == 1

\* the text the LLM returns to the writer's chain: the call fails, the text
\* is not JSON, it is JSON but not an object, or it is an object whose
\* 'draft' is absent, not an object, or an object with or without a title
\* and with a number of sections (-1: 'sections' is not a list of objects)
WriterText(kind, present, isdict, title, sections) ==
    [kind |-> kind, present |-> present, isdict |-> isdict, title |-> title,
     sections |-> sections]

WriterTexts ==
    {WriterText("error", FALSE, FALSE, "", 0),
     WriterText("invalid", FALSE, FALSE, "", 0),
     WriterText("nonobject", FALSE, FALSE, "", 0),
     WriterText("object", FALSE, FALSE, "", 0),
     WriterText("object", TRUE, FALSE, "", 0),
     WriterText("object", TRUE, TRUE, "", 2),
     WriterText("object", TRUE, TRUE, "Plan", 6),
     WriterText("object", TRUE, TRUE, "Plan", -1)}

\* the ten placeholder headings of WriterAgent._coerce_json
NumRequiredSections == 10

\* the keys of a draft
DraftKeys == {"title", "summary", "sections", "references"}

\* the keys of a review
ReviewKeys == {"accuracy_score", "clarity_score", "completeness_score",
               "suggestions", "final_recommendation", "reviewed_draft"}

\* the keys the LLM's draft (review) object holds: a title (recommendation)
\* if it is not "", sections (a reviewed_draft) if there are any
TextKeys(text, title_key, sections_key) ==
    (IF text.title # "" THEN {title_key} ELSE {}) \cup
    (IF text.sections # 0 THEN {sections_key} ELSE {})

\* d.setdefault(k, ...) for every k of keys, on the keys of d
SetDefaults(present, keys) == present \cup keys

\* WriterAgent._coerce_json: the normalised {"draft": {...}}, as the title,
\* the number of sections and the keys of its draft
WriterAgent_coerce_json(text) ==
    CASE text.kind = "invalid" ->
            Ok([title |-> "Draft", sections |-> NumRequiredSections,
                keys |-> SetDefaults(DraftKeys, DraftKeys)])
      [] text.kind = "nonobject" -> Raise("AttributeError")
      [] text.kind = "object" /\ ~text.present ->
            Ok([title |-> "Startup Blueprint", sections |-> NumRequiredSections,
                keys |-> SetDefaults({}, DraftKeys)])
      [] text.kind = "object" /\ text.present /\ ~text.isdict ->
            Raise("AttributeError")
      [] text.kind = "object" /\ text.present /\ text.isdict ->
            IF text.sections < 0 THEN Raise("AttributeError")
            ELSE Ok([title |-> IF text.title = "" THEN "Startup Blueprint"
                               ELSE text.title,
                     sections |-> IF text.sections < 5
                                  THEN text.sections + NumRequiredSections
                                  ELSE text.sections,
                     keys |-> SetDefaults(TextKeys(text, "title", "sections"),
                                          DraftKeys)])

\* WriterAgent.write: chain.invoke, then _coerce_json; nothing is caught
WriterAgent_write(text) ==
    IF text.kind = "error" THEN Raise("LLMError") ELSE WriterAgent_coerce_json(text)

\* the text the LLM returns to the reviewer's chain; sections = -1: the
\* review's 'reviewed_draft' is not an object
ReviewerTexts ==
    {WriterText("error", FALSE, FALSE, "", 0),
     WriterText("invalid", FALSE, FALSE, "", 0),
     WriterText("nonobject", FALSE, FALSE, "", 0),
     WriterText("object", FALSE, FALSE, "", 0),
     WriterText("object", TRUE, FALSE, "", 0),
     WriterText("object", TRUE, TRUE, "Approve", 0),
     WriterText("object", TRUE, TRUE, "Approve", -1)}

\* ReviewerAgent._coerce_json: the normalised {"review": {...}}, as its
\* final_recommendation, its keys and the keys of its reviewed_draft
ReviewerAgent_coerce_json(text) ==
    CASE text.kind = "invalid" ->
            Ok([final_recommendation |-> "Needs major revision",
                keys |-> SetDefaults(ReviewKeys, ReviewKeys),
                draft_keys |-> SetDefaults(DraftKeys, DraftKeys)])
      [] text.kind = "nonobject" -> Raise("AttributeError")
      [] text.kind = "object" /\ ~text.present ->
            Ok([final_recommendation |-> "Needs major revision",
                keys |-> SetDefaults({}, ReviewKeys),
                draft_keys |-> SetDefaults({}, DraftKeys)])
      [] text.kind = "object" /\ text.present /\ ~text.isdict ->
            Raise("AttributeError")
      [] text.kind = "object" /\ text.present /\ text.isdict ->
            IF text.sections < 0 THEN Raise("AttributeError")
            ELSE Ok([final_recommendation |-> IF text.title = ""
                                              THEN "Needs major revision"
                                              ELSE text.title,
                     keys |-> SetDefaults(TextKeys(text, "final_recommendation",
                                                   "reviewed_draft"), ReviewKeys),
                     draft_keys |-> SetDefaults({}, DraftKeys)])

\* ReviewerAgent.review
ReviewerAgent_review(text) ==
    IF text.kind = "error" THEN Raise("LLMError") ELSE ReviewerAgent_coerce_json(text)

\* ExporterAgent.export_all(review, formats, title): a file path per format,
\* or an exception (disk, renderer)
ExporterAgent_export_all(formats, export_ok) ==
    IF export_ok THEN Ok([f \in formats |-> Str("path")]) ELSE Raise("OSError")

\* req.options.export_formats: no options, an empty list, a list
FormatOptions == {"none", "empty", "pdf"}

\* the formats expression of generate, line 173
Formats(option) ==
    CASE option = "none" -> {"json", "markdown", "html"}
      [] option = "empty" -> {"json"}
      [] option = "pdf" -> {"pdf"}

\* req.query; "   " is whitespace only
Queries == {"", "   ", "fintech app"}

NoAgents == [a \in {"retriever", "writer", "reviewer", "exporter"} |-> 0]

\* init_agents(): the globals after the call, or RuntimeError
init_agents(agents, retriever_ok, created, env_key, retriever_up) ==
    IF \A a \in DOMAIN agents : agents[a] # 0
    THEN [exc |-> "none", agents |-> agents, retriever_ok |-> retriever_ok,
          created |-> created]
    ELSE IF ~env_key
    THEN [exc |-> "RuntimeError", agents |-> agents, retriever_ok |-> retriever_ok,
          created |-> created]
    ELSE LET c == IF retriever_up THEN created + 1 ELSE created IN
         [exc |-> "none",
          agents |-> [a \in DOMAIN agents |->
                        CASE a = "retriever" -> IF retriever_up THEN c ELSE 0
                          [] a = "writer" -> c + 1
                          [] a = "reviewer" -> c + 2
                          [] a = "exporter" -> c + 3],
          retriever_ok |-> retriever_up,
          created |-> c + 3]

NoDraft == [title |-> "", sections |-> 0]
NoReview == [final_recommendation |-> ""]

Response(status, detail, draft, review, files) ==
    [status |-> status, detail |-> detail, draft |-> draft, review |-> review,
     files |-> files]

\* the three services with a query check: the unified pipeline
\* (pipeline_api.py), the retriever (python-retriever/main.py), the analyst
\* (analyst-agent/main.py); each is a process of its own
Services == {"pipeline", "retriever", "analyst"}

\* the answer of /enrich or /analyze: HTTP status, detail, and whether the
\* agent (enrich_query, analyze_context) was run
EndpointResponse(status, detail, ran) ==
    [status |-> status, detail |-> detail, ran |-> ran]

\* the body of enrich_query and of analyze_context: the check of the query
\* (idea) raises HTTPException(400) inside the try block, whose
\* 'except Exception' replaces every exception by HTTPException(500)
Endpoint(text, agent_ok) ==
    IF text \in {"", "   "} THEN EndpointResponse("500", "400", FALSE)
    ELSE IF agent_ok THEN EndpointResponse("200", "", TRUE)
    ELSE EndpointResponse("500", "agent", TRUE)

PipelineInit ==
    /\ p_env_key \in BOOLEAN
    /\ p_agents = NoAgents
    /\ p_retriever_ok = FALSE
    /\ p_created = 0
    /\ p_requests = 0
    /\ p_trace = << >>
    /\ p_response = Response("NotStarted", "", NoDraft, NoReview, {})
    /\ e_service \in Services
    /\ e_requests = 0
    /\ e_response = EndpointResponse("none", "", FALSE)
    /\ ChainIdle
    /\ ConfigIdle
    /\ ValidationIdle
    /\ LimiterIdle
    /\ RagIdle
    /\ ChunkIdle

\* on_startup: init_agents(); an exception keeps the application from starting
Startup ==
    /\ e_service = "pipeline"
    /\ p_response.status = "NotStarted"
    /\ \E retriever_up \in BOOLEAN :
         LET ia == init_agents(p_agents, p_retriever_ok, p_created, p_env_key,
                               retriever_up) IN
         /\ p_agents' = ia.agents
         /\ p_retriever_ok' = ia.retriever_ok
         /\ p_created' = ia.created
         /\ p_response' = [p_response EXCEPT
                             !.status = IF ia.exc = "none" THEN "Started"
                                        ELSE "StartupFailed",
                             !.detail = ia.exc]
    /\ UNCHANGED <<p_env_key, p_requests, p_trace>>
    /\ UNCHANGED <<chain_vars, config_vars, validation_vars, limiter_vars, aux_vars>>

\* variant: a failed retrieval is passed on instead of being replaced
Contexts_Unreplaced(retrieved, docs) == docs

\* generate, lines 144-158: the number of context chunks handed to the
\* writer; no retriever, or retrieve_context raising (docs = -1), gives []
Contexts(retrieved, docs) == IF retrieved /\ docs > 0 THEN docs ELSE 0

\* generate(req), lines 136-183
Generate ==
    /\ e_service = "pipeline"
    /\ p_response.status \notin {"NotStarted", "StartupFailed"}
    /\ p_requests < MaxRequests
    /\ p_requests' = p_requests + 1
    /\ \E query \in Queries, retriever_up \in BOOLEAN, docs \in -1..MaxDocs,
          wtext \in WriterTexts, rtext \in ReviewerTexts,
          option \in FormatOptions, export_ok \in BOOLEAN :
         LET ia == init_agents(p_agents, p_retriever_ok, p_created, p_env_key,
                               retriever_up)
             \* lines 144-158: docs = -1 stands for retrieve_context raising
             retrieved == ia.agents["retriever"] # 0
             contexts == Contexts(retrieved, docs)
             t1 == IF retrieved THEN <<[stage |-> "retriever", arg |-> docs]>>
                   ELSE << >>
             draft == WriterAgent_write(wtext)
             t2 == t1 \o <<[stage |-> "writer", arg |-> contexts]>>
             review == ReviewerAgent_review(rtext)
             t3 == t2 \o <<[stage |-> "reviewer", arg |-> 0]>>
             files == ExporterAgent_export_all(Formats(option), export_ok)
             t4 == t3 \o <<[stage |-> "exporter", arg |-> 0]>>
         IN
         /\ p_agents' = ia.agents
         /\ p_retriever_ok' = ia.retriever_ok
         /\ p_created' = ia.created
         /\ IF ia.exc # "none"
            THEN \* line 139 raises; lines 182-183
                 /\ p_trace' = << >>
                 /\ p_response' = Response("500", ia.exc, NoDraft, NoReview, {})
            ELSE IF query \in {"", "   "}
            THEN \* line 141 raises HTTPException(400), which lines 182-183
                 \* catch and replace
                 /\ p_trace' = << >>
                 /\ p_response' = Response("500", "400", NoDraft, NoReview, {})
            ELSE IF draft.exc # "none"
            THEN /\ p_trace' = t2
                 /\ p_response' = Response("500", draft.exc, NoDraft, NoReview, {})
            ELSE IF review.exc # "none"
            THEN /\ p_trace' = t3
                 /\ p_response' = Response("500", review.exc, NoDraft, NoReview, {})
            ELSE IF files.exc # "none"
            THEN /\ p_trace' = t4
                 /\ p_response' = Response("500", files.exc, NoDraft, NoReview, {})
            ELSE /\ p_trace' = t4
                 /\ p_response' = Response("200", "", draft.out, review.out,
                                           DOMAIN files.out)
    /\ UNCHANGED p_env_key
    /\ UNCHANGED <<chain_vars, config_vars, validation_vars, limiter_vars, aux_vars>>

\* POST /enrich of the retriever service, lines 691-703
Enrich ==
    /\ e_service = "retriever"
    /\ e_requests < MaxRequests
    /\ e_requests' = e_requests + 1
    /\ \E query \in Queries, agent_ok \in BOOLEAN :
         e_response' = Endpoint(query, agent_ok)
    /\ UNCHANGED <<e_service, pipeline_vars, rag_vars, chunk_vars>>
    /\ UNCHANGED <<chain_vars, config_vars, validation_vars, limiter_vars>>

\* POST /analyze of the analyst service, lines 754-766
Analyze ==
    /\ e_service = "analyst"
    /\ e_requests < MaxRequests
    /\ e_requests' = e_requests + 1
    /\ \E idea \in Queries, agent_ok \in BOOLEAN :
         e_response' = Endpoint(idea, agent_ok)
    /\ UNCHANGED <<e_service, pipeline_vars, rag_vars, chunk_vars>>
    /\ UNCHANGED <<chain_vars, config_vars, validation_vars, limiter_vars>>

PipelineNext ==
    \/ Startup
    \/ Generate
    \/ Enrich
    \/ Analyze

SpecPipeline == PipelineInit /\ [][PipelineNext]_vars

\* C17: a request with a usable query on a started pipeline is answered
\* with a complete response (draft, review, files) whichever single stage
\* failed: the failing stage's output is replaced, the request is not aborted.
C17_StageFailureDoesNotAbort ==
    (p_requests > 0 /\ p_trace # << >>) =>
        /\ p_response.status = "200"
        /\ p_response.draft # NoDraft
        /\ p_response.review # NoReview
        /\ p_response.files # {}

(***************************************************************************)
(* The trial limiter of /api/generate: src/backend/api_server.py with      *)
(* RedisLimiter (src/backend/core/limiter_redis.py) or with the in-memory  *)
(* dict, src/api_server.py with the in-memory dict.  generate is a         *)
(* coroutine: it runs without interruption from one awaited Redis command  *)
(* to the next; chain_manager.run is a synchronous call inside it.         *)
(***************************************************************************)
\* /api/generate requests of the user
MaxLimRequests == 3
\* expiries of the user's key
MaxExpiries == 1

TRIAL_LIMIT == 2

LimRequests == 1..MaxLimRequests

\* no key stored at user:<user_id>
NoKey == [exists |-> FALSE, trials_used |-> 0, tokens_used |-> 0, ttl |-> FALSE]

\* a request: status 0 until answered; seen is a value read from Redis
LimRequest(at, status, remaining) ==
    [pc |-> at, status |-> status, remaining |-> remaining]

LimiterInit ==
    /\ l_use_redis \in BOOLEAN
    /\ l_key = NoKey
    /\ l_user_trials = 0
    /\ l_req = [r \in LimRequests |-> LimRequest("start", 0, 0)]
    /\ l_window = 0
    /\ l_expiries = 0
    /\ ChainIdle
    /\ ConfigIdle
    /\ ValidationIdle
    /\ PipelineIdle
    /\ AuxIdle

LimiterFrame ==
    UNCHANGED <<chain_vars, config_vars, validation_vars, pipeline_vars, aux_vars>>

\* generate with the in-memory dict (backend/api_server.py lines 109-114,
\* 134-135, 149-158; api_server.py lines 59-101): no await between the check
\* and the update
GenerateInMemory(r) ==
    /\ ~l_use_redis
    /\ l_req[r].pc = "start"
    /\ \E chain_ok \in BOOLEAN :
         IF l_user_trials >= TRIAL_LIMIT
         THEN /\ l_req' = [l_req EXCEPT ![r] = LimRequest("done", 403, 0)]
              /\ UNCHANGED <<l_user_trials, l_window>>
         ELSE IF ~chain_ok
         THEN \* chain_manager.run raises
              /\ l_req' = [l_req EXCEPT ![r] = LimRequest("done", 500, 0)]
              /\ UNCHANGED <<l_user_trials, l_window>>
         ELSE /\ l_user_trials' = l_user_trials + 1
              /\ l_req' = [l_req EXCEPT ![r] =
                             LimRequest("done", 200,
                                        Max(TRIAL_LIMIT - (l_user_trials + 1), 0))]
              /\ l_window' = l_window + 1
    /\ UNCHANGED <<l_use_redis, l_key, l_expiries>>
    /\ LimiterFrame

\* RedisLimiter.get_usage: hgetall, missing fields read as 0
get_usage(key) ==
    IF key.exists THEN [trials_used |-> key.trials_used, tokens_used |-> key.tokens_used]
    ELSE [trials_used |-> 0, tokens_used |-> 0]

\* lines 97-135: can_use (hgetall), 403 when exhausted; otherwise the chain
\* runs, and the coroutine goes on to increment_usage
CanUse(r) ==
    /\ l_use_redis
    /\ l_req[r].pc = "start"
    /\ \E chain_ok \in BOOLEAN :
         l_req' = [l_req EXCEPT ![r] =
                      IF ~(get_usage(l_key).trials_used < TRIAL_LIMIT)
                      THEN LimRequest("done", 403, 0)
                      ELSE IF ~chain_ok THEN LimRequest("done", 500, 0)
                      ELSE LimRequest("exists", 0, 0)]
    /\ UNCHANGED <<l_use_redis, l_key, l_user_trials, l_window, l_expiries>>
    /\ LimiterFrame

\* increment_usage line 38: redis.exists(key)
Exists(r) ==
    /\ l_req[r].pc = "exists"
    /\ l_req' = [l_req EXCEPT ![r].pc = IF l_key.exists THEN "hincrby_trials"
                                         ELSE "hset"]
    /\ UNCHANGED <<l_use_redis, l_key, l_user_trials, l_window, l_expiries>>
    /\ LimiterFrame

\* line 39: redis.hset(key, mapping={"trials_used": 0, "tokens_used": 0})
HSet(r) ==
    /\ l_req[r].pc = "hset"
    /\ l_key' = [l_key EXCEPT !.exists = TRUE, !.trials_used = 0, !.tokens_used = 0]
    /\ l_req' = [l_req EXCEPT ![r].pc = "expire"]
    /\ UNCHANGED <<l_use_redis, l_user_trials, l_window, l_expiries>>
    /\ LimiterFrame

\* line 40: redis.expire(key, TRIAL_EXPIRY_DAYS * 86400)
Expire(r) ==
    /\ l_req[r].pc = "expire"
    /\ l_key' = [l_key EXCEPT !.ttl = l_key.exists]
    /\ l_req' = [l_req EXCEPT ![r].pc = "hincrby_trials"]
    /\ UNCHANGED <<l_use_redis, l_user_trials, l_window, l_expiries>>
    /\ LimiterFrame

\* line 41: redis.hincrby(key, "trials_used", 1); creates the key if absent
HIncrByTrials(r) ==
    /\ l_req[r].pc = "hincrby_trials"
    /\ l_key' = [l_key EXCEPT !.exists = TRUE, !.trials_used = @ + 1]
    /\ l_req' = [l_req EXCEPT ![r].pc = "hincrby_tokens"]
    /\ UNCHANGED <<l_use_redis, l_user_trials, l_window, l_expiries>>
    /\ LimiterFrame

\* line 42: redis.hincrby(key, "tokens_used", tokens); the model counts calls
HIncrByTokens(r) ==
    /\ l_req[r].pc = "hincrby_tokens"
    /\ l_key' = [l_key EXCEPT !.exists = TRUE, !.tokens_used = @ + 1]
    /\ l_req' = [l_req EXCEPT ![r].pc = "remaining"]
    /\ UNCHANGED <<l_use_redis, l_user_trials, l_window, l_expiries>>
    /\ LimiterFrame

\* line 143 and lines 154-158: remaining_trials (hgetall), then the response
RemainingTrials(r) ==
    /\ l_req[r].pc = "remaining"
    /\ l_req' = [l_req EXCEPT ![r] =
                    LimRequest("done", 200,
                               Max(TRIAL_LIMIT - get_usage(l_key).trials_used, 0))]
    /\ l_window' = l_window + 1
    /\ UNCHANGED <<l_use_redis, l_key, l_user_trials, l_expiries>>
    /\ LimiterFrame

\* Redis removes the key when its time to live has elapsed: the window ends
KeyExpires ==
    /\ l_use_redis
    /\ l_key.exists /\ l_key.ttl
    /\ l_expiries < MaxExpiries
    /\ l_expiries' = l_expiries + 1
    /\ l_key' = NoKey
    /\ l_window' = 0
    /\ UNCHANGED <<l_use_redis, l_user_trials, l_req>>
    /\ LimiterFrame

LimiterNext ==
    \/ \E r \in LimRequests :
          \/ GenerateInMemory(r)
          \/ CanUse(r)
          \/ Exists(r)
          \/ HSet(r)
          \/ Expire(r)
          \/ HIncrByTrials(r)
          \/ HIncrByTokens(r)
          \/ RemainingTrials(r)
    \/ KeyExpires

SpecLimiter == LimiterInit /\ [][LimiterNext]_vars

\* C20: within one expiry window, the requests of a user that ran the chain
\* and were answered 200 never number more than TRIAL_LIMIT, with the Redis
\* limiter and with the in-memory limiter, in every interleaving.
C20_SuccessesWithinLimit ==
    l_window <= TRIAL_LIMIT

\* request r is between the first and the last command of increment_usage
InIncrement(r) ==
    l_req[r].pc \in {"hset", "expire", "hincrby_trials", "hincrby_tokens"}

\* the requests whose increment_usage call has returned
CompletedIncrements ==
    {r \in LimRequests :
        l_req[r].pc = "remaining" \/ (l_req[r].pc = "done" /\ l_req[r].status = 200)}

\* C21: with the Redis limiter, in the first expiry window and with no
\* increment_usage call in progress, the stored trials_used equals the
\* number of increment_usage calls that have completed: no increment is lost,
\* in any interleaving of the calls' commands.
C21_NoIncrementLost ==
    (l_use_redis /\ l_expiries = 0 /\ \A r \in LimRequests : ~InIncrement(r)) =>
        l_key.trials_used = Cardinality(CompletedIncrements)

\* C22: with no increment_usage call in progress, a usage key that exists in
\* Redis has a time to live, in every interleaving of the calls' commands
\* with the expiry of the key.
C22_ExistingKeyHasExpiry ==
    (l_use_redis /\ \A r \in LimRequests : ~InIncrement(r)) =>
        (l_key.exists => l_key.ttl)

\* the user's usage counter, in Redis or in the in-memory dict
UsageCounter == IF l_use_redis THEN l_key.trials_used ELSE l_user_trials

\* C23: a step of a /api/generate request never lowers the user's counter and
\* raises it by at most 1; a step that answers 403 or 500 leaves it unchanged;
\* a step that answers 200 reports remaining = max(TRIAL_LIMIT - used, 0),
\* which is never negative.  (The expiry of the key is not a request step.)
C23_OnlySuccessIncrementsByOne ==
    [][ l_expiries' = l_expiries =>
          /\ UsageCounter' \in {UsageCounter, UsageCounter + 1}
          /\ \A r \in LimRequests :
                (l_req[r].pc # "done" /\ l_req'[r].pc = "done") =>
                   /\ l_req'[r].status \in {403, 500} => UsageCounter' = UsageCounter
                   /\ l_req'[r].status = 200 =>
                         /\ l_req'[r].remaining = Max(TRIAL_LIMIT - UsageCounter', 0)
                         /\ l_req'[r].remaining >= 0
      ]_vars

\* C24: a request whose query (idea) is empty or whitespace-only is answered
\* with status 400 by /generate, /enrich and /analyze, and no agent stage is
\* run for it.  (In the model a request that failed the query check is the
\* one whose detail is "400" and that ran no stage.)
C24_BlankQueryAnswered400 ==
    /\ (p_requests > 0 /\ p_response.detail = "400") =>
          (p_response.status = "400" /\ p_trace = << >>)
    /\ (e_requests > 0 /\ e_response.detail = "400") =>
          (e_response.status = "400" /\ ~e_response.ran)

\* the stages of the last request, in the order they were run
TraceStages == [i \in 1..Len(p_trace) |-> p_trace[i].stage]

\* the last request ran stages without a retrieval result: the retriever
\* was not initialized, or retrieve_context raised
RetrievalFailed ==
    /\ p_requests > 0
    /\ p_trace # << >>
    /\ \A i \in 1..Len(p_trace) :
          p_trace[i].stage = "retriever" => p_trace[i].arg = -1

\* C25: when the retriever failed to initialize or retrieve_context raised,
\* the writer is still invoked, with an empty context list, and the review
\* and export stages follow it: the request fails only if the writer, the
\* reviewer or the exporter itself raises, at that stage.
C25_RetrieverFailureDoesNotFail ==
    RetrievalFailed =>
        LET n == Len(p_trace)
            w == CHOOSE i \in 1..n : p_trace[i].stage = "writer" IN
        /\ \E i \in 1..n : p_trace[i].stage = "writer"
        /\ p_trace[w].arg = 0
        /\ p_response.status = "200" =>
              SubSeq(TraceStages, w, n) = <<"writer", "reviewer", "exporter">>
        /\ p_response.status = "500" =>
              /\ SubSeq(TraceStages, w, n) \in
                    {<<"writer">>, <<"writer", "reviewer">>,
                     <<"writer", "reviewer", "exporter">>}
              /\ p_response.detail \in {"LLMError", "AttributeError", "OSError"}
        /\ p_response.status \in {"200", "500"}

\* a request answered 200 by a process whose retriever failed to initialize
C25_Witness ==
    /\ RetrievalFailed
    /\ p_agents["retriever"] = 0
    /\ p_response.status = "200"
    /\ p_response.files # {}

\* C26: once init_agents has completed, every later call of it keeps the
\* same writer, reviewer and exporter instances, also in a process where the
\* retriever failed to initialize.
C26_AgentsInitializedOnce ==
    [][ (e_service = "pipeline" /\ p_response.status \notin {"NotStarted", "StartupFailed"}) =>
          \A a \in {"writer", "reviewer", "exporter"} : p_agents'[a] = p_agents[a]
      ]_vars

\* {"error": ...}, the entry line 126 of run() stores for a raising stage
IsErrorMarker(entry) == DOMAIN entry = {"error"}

\* an entry that is a scalar or a list, on which .get raises AttributeError
IsScalar(entry) == DOMAIN entry = {"t", "s", "n"}

\* the four entries _generate_summary reads: context key, field of the
\* summary, field of the report
SummaryParts ==
    {[key |-> K_funding_stage, part |-> "stage", field |-> "funding_stage"],
     [key |-> K_raise_amount, part |-> "amount", field |-> "raise_amount"],
     [key |-> K_investor_type, part |-> "investor", field |-> "investor_type"],
     [key |-> K_runway, part |-> "runway", field |-> "runway"]}

\* _build_output or _generate_summary raises on this context: KeyError on
\* ['input']['startupName'], AttributeError on .get of a non-dict entry
AssemblyRaises(ctx) ==
    \/ K_input \notin DOMAIN ctx
    \/ IsScalar(ctx[K_input])
    \/ "startupName" \notin DOMAIN ctx[K_input]
    \/ \E p \in SummaryParts : p.key \in DOMAIN ctx /\ IsScalar(ctx[p.key])

MaxDbDocs == 1

F_crawled == "crawled_docs_enhanced.json"
F_chunks == "chunks.json"

RagSteps == <<"crawler", "chunker", "embedder", "validation">>

\* what the work of a step can come to: a non-empty result, an empty result,
\* an exception
Outcomes == {"some", "none", "raise"}

\* RAGPipeline.__init__ and the call run_full_pipeline(force), line 224
RagInit ==
    /\ g_pc = "crawl"
    /\ g_force \in BOOLEAN
    /\ g_files \in SUBSET {F_crawled, F_chunks}
    /\ g_db \in 0..MaxDbDocs
    /\ g_success = TRUE
    /\ g_steps_completed = << >>
    /\ g_errors = << >>
    /\ g_order = << >>
    /\ g_result = "none"
    /\ ChainIdle
    /\ ConfigIdle
    /\ ValidationIdle
    /\ PipelineIdle
    /\ LimiterIdle
    /\ EndpointIdle
    /\ ChunkIdle

RagFrame ==
    UNCHANGED <<chain_vars, config_vars, validation_vars, pipeline_vars,
                limiter_vars, endpoint_vars, chunk_vars>>

\* a step has returned ok: its entry in steps_completed or in errors, the
\* record of the call, and 'if not self.run_x(force): success = False'
StepReturns(step, ok, next) ==
    /\ g_order' = Append(g_order, [step |-> step, ok |-> ok])
    /\ g_steps_completed' = IF ok THEN Append(g_steps_completed, step)
                            ELSE g_steps_completed
    /\ g_errors' = IF ok THEN g_errors ELSE Append(g_errors, step)
    /\ g_success' = ok
    /\ g_pc' = next

\* 'if success and not ...': the step is not called
StepSkipped(next) ==
    /\ g_pc' = next
    /\ UNCHANGED <<g_force, g_files, g_db, g_success, g_steps_completed, g_errors,
                   g_order, g_result>>

\* lines 226-228 and run_crawler, lines 37-74
RunCrawler ==
    /\ g_pc = "crawl"
    /\ IF F_crawled \in g_files /\ ~g_force
       THEN StepReturns("crawler", TRUE, "chunk") /\ UNCHANGED g_files
       ELSE \E o \in Outcomes :
              /\ StepReturns("crawler", o = "some", "chunk")
              \* crawl_all writes its output file before it returns
              /\ g_files' = IF o = "raise" THEN g_files ELSE g_files \cup {F_crawled}
    /\ UNCHANGED <<g_force, g_db, g_result>>
    /\ RagFrame

\* lines 230-232 and run_chunker, lines 76-121
RunChunker ==
    /\ g_pc = "chunk"
    /\ IF ~g_success THEN StepSkipped("embed")
       ELSE /\ IF F_crawled \notin g_files
               THEN StepReturns("chunker", FALSE, "embed") /\ UNCHANGED g_files
               ELSE IF F_chunks \in g_files /\ ~g_force
               THEN StepReturns("chunker", TRUE, "embed") /\ UNCHANGED g_files
               ELSE \E o \in Outcomes :
                      /\ StepReturns("chunker", o = "some", "embed")
                      \* process_documents writes chunks.json before it returns
                      /\ g_files' = IF o = "raise" THEN g_files
                                    ELSE g_files \cup {F_chunks}
            /\ UNCHANGED <<g_force, g_db, g_result>>
    /\ RagFrame

\* lines 234-236 and run_embedder, lines 123-172
RunEmbedder ==
    /\ g_pc = "embed"
    /\ IF ~g_success THEN StepSkipped("validate")
       ELSE /\ IF F_chunks \notin g_files
               THEN StepReturns("embedder", FALSE, "validate") /\ UNCHANGED g_db
               ELSE \E stats_ok \in BOOLEAN :
                      IF ~g_force /\ ~stats_ok
                      THEN \* DocumentEmbedder() or get_database_stats raises
                           StepReturns("embedder", FALSE, "validate")
                           /\ UNCHANGED g_db
                      ELSE IF ~g_force /\ g_db > 0
                      THEN StepReturns("embedder", TRUE, "validate")
                           /\ UNCHANGED g_db
                      ELSE \E o \in Outcomes :
                             /\ StepReturns("embedder", o = "some", "validate")
                             /\ g_db' = IF o = "some" THEN 1 ELSE g_db
            /\ UNCHANGED <<g_force, g_files, g_result>>
    /\ RagFrame

\* lines 238-241 and validate_pipeline, lines 174-208: nothing is added to
\* pipeline_stats; validate_chunks is called outside the try block
Validate ==
    /\ g_pc = "validate"
    /\ IF ~g_success THEN StepSkipped("finish")
       ELSE \E chunks \in Outcomes, stats_ok \in BOOLEAN :
              IF F_chunks \in g_files /\ chunks = "raise"
              THEN /\ g_order' = Append(g_order, [step |-> "validation", ok |-> FALSE])
                   /\ g_result' = "raised"
                   /\ g_pc' = "done"
                   /\ UNCHANGED <<g_force, g_files, g_db, g_success,
                                  g_steps_completed, g_errors>>
              ELSE LET passed == /\ F_chunks \in g_files => chunks = "some"
                                 /\ stats_ok
                                 /\ g_db > 0 IN
                   /\ g_order' = Append(g_order, [step |-> "validation",
                                                  ok |-> passed])
                   /\ g_success' = passed
                   /\ g_pc' = "finish"
                   /\ UNCHANGED <<g_force, g_files, g_db, g_steps_completed,
                                  g_errors, g_result>>
    /\ RagFrame

\* lines 243-266: the stats file is written, success is returned
Finish ==
    /\ g_pc = "finish"
    /\ \E write_ok \in BOOLEAN :
         g_result' = IF ~write_ok THEN "raised"
                     ELSE IF g_success THEN "True" ELSE "False"
    /\ g_pc' = "done"
    /\ UNCHANGED <<g_force, g_files, g_db, g_success, g_steps_completed, g_errors,
                   g_order>>
    /\ RagFrame

RagNext ==
    \/ RunCrawler
    \/ RunChunker
    \/ RunEmbedder
    \/ Validate
    \/ Finish

SpecRag == RagInit /\ [][RagNext]_vars

\* C28: run_full_pipeline runs crawl, chunk, embed and validation in that
\* order, starts a step only if every earlier step returned success, returns
\* True exactly when all four succeeded, and whenever it returns False
\* pipeline_stats['errors'] has an entry naming the step that failed.
C28_StepsInOrderAndErrorsNamed ==
    /\ Len(g_order) <= Len(RagSteps)
    /\ \A i \in 1..Len(g_order) :
          /\ g_order[i].step = RagSteps[i]
          /\ \A j \in 1..(i - 1) : g_order[j].ok
    /\ g_pc = "done" =>
          /\ g_result \in {"True", "False"}
          /\ g_result = "True" <=>
                (Len(g_order) = Len(RagSteps) /\ \A i \in 1..Len(g_order) : g_order[i].ok)
          /\ g_result = "False" =>
                \E i \in 1..Len(g_order), e \in 1..Len(g_errors) :
                    ~g_order[i].ok /\ g_errors[e] = g_order[i].step

(***************************************************************************)
(* chunk_text (src/data-pipeline/chunker.py).  A text is the sequence of   *)
(* the lengths of its words; the empty sequence is an empty or             *)
(* whitespace-only text.  A chunk is the set of word positions it holds.   *)
(***************************************************************************)
\* words of the text
MaxWords == 4
MaxChunkSize == 3
MaxOverlap == 3
\* iterations of the loop that are followed; a call that returns makes at
\* most one iteration per word
MaxIters == MaxWords + 2

WordLengths == {1, 30}

Texts == UNION {[1..n -> WordLengths] : n \in 0..MaxWords}

\* min(a, b)
Min(a, b) == IF a <= b THEN a ELSE b

\* a slice index as Python normalises it for a sequence of n elements
SliceIndex(i, n) == IF i < 0 THEN Max(i + n, 0) ELSE Min(i, n)

\* the positions (from 1) of words[start:end]
Slice(n, start, end) ==
    {i \in 1..n : SliceIndex(start, n) < i /\ i <= SliceIndex(end, n)}

RECURSIVE SumLengths(_, _)
SumLengths(words, positions) ==
    IF positions = {} THEN 0
    ELSE LET i == CHOOSE x \in positions : TRUE IN
         words[i] + SumLengths(words, positions \ {i})

\* len(" ".join(words[start:end]))
JoinedLength(words, positions) ==
    IF positions = {} THEN 0
    ELSE SumLengths(words, positions) + Cardinality(positions) - 1

\* the call chunk_text(text, chunk_size, overlap) with chunk_size >= 1 and
\* overlap >= 0
ChunkInit ==
    /\ k_pc = "call"
    /\ k_words \in Texts
    /\ k_chunk_size \in 1..MaxChunkSize
    /\ k_overlap \in 0..MaxOverlap
    /\ k_start = 0
    /\ k_chunks = << >>
    /\ k_iters = 0
    /\ ChainIdle
    /\ ConfigIdle
    /\ ValidationIdle
    /\ PipelineIdle
    /\ LimiterIdle
    /\ EndpointIdle
    /\ RagIdle

ChunkFrame ==
    UNCHANGED <<chain_vars, config_vars, validation_vars, pipeline_vars,
                limiter_vars, endpoint_vars, rag_vars>>

\* lines 28-39: the early returns, or entry into the loop
ChunkCall ==
    /\ k_pc = "call"
    /\ IF Len(k_words) = 0
       THEN k_chunks' = << >> /\ k_pc' = "done"
       ELSE IF Len(k_words) <= k_chunk_size
       THEN k_chunks' = <<1..Len(k_words)>> /\ k_pc' = "done"
       ELSE k_chunks' = << >> /\ k_pc' = "loop"
    /\ UNCHANGED <<k_words, k_chunk_size, k_overlap, k_start, k_iters>>
    /\ ChunkFrame

\* lines 41-54: one iteration of the while loop
ChunkLoop ==
    /\ k_pc = "loop"
    /\ k_iters < MaxIters
    /\ LET n == Len(k_words)
           end == Min(k_start + k_chunk_size, n)
           chunk == Slice(n, k_start, end)
           start == k_start + k_chunk_size - k_overlap
       IN
       /\ k_chunks' = IF JoinedLength(k_words, chunk) > 50
                      THEN Append(k_chunks, chunk) ELSE k_chunks
       /\ k_start' = start
       /\ k_pc' = IF start >= n THEN "done" ELSE "loop"
    /\ k_iters' = k_iters + 1
    /\ UNCHANGED <<k_words, k_chunk_size, k_overlap>>
    /\ ChunkFrame

ChunkNext ==
    \/ ChunkCall
    \/ ChunkLoop

\* the call runs on: no scheduling is involved
SpecChunk == ChunkInit /\ [][ChunkNext]_vars /\ WF_vars(ChunkNext)

\* every word of the text is in some returned chunk
AllWordsChunked ==
    \A i \in 1..Len(k_words) : \E c \in 1..Len(k_chunks) : i \in k_chunks[c]

\* C29: chunk_text returns for every text, chunk_size >= 1 and overlap >= 0,
\* and when it has returned for a text of more than chunk_size words, every
\* word of the text is in at least one returned chunk.
C29_TerminatesAndCoversEveryWord ==
    /\ <>(k_pc = "done")
    /\ []((k_pc = "done" /\ Len(k_words) > k_chunk_size) => AllWordsChunked)

\* C30: whatever text the LLM returns (invalid JSON, an object with or
\* without the expected keys, JSON that is not an object), neither
\* _coerce_json raises, and the draft, the review and the review's
\* reviewed_draft of an answered request have all their documented keys.
C30_CoerceJsonNeverRaises ==
    /\ p_response.detail # "AttributeError"
    /\ p_response.status = "200" =>
          /\ DraftKeys \subseteq p_response.draft.keys
          /\ ReviewKeys \subseteq p_response.review.keys
          /\ DraftKeys \subseteq p_response.review.draft_keys

====
